---- MODULE Spec2Model ----
(***************************************************************************)
(* Zefanilia-Bibles-Creator: Bible.py (Bible, Bible.Book, Bible.Chapter),  *)
(* main.py (writeFile, writeBible) and utils.py as a state machine.        *)
(*                                                                         *)
(* Two specifications share the module:                                    *)
(*   Spec     a writeBible run: the loop over versions, the loop over the  *)
(*            books of a version, and the thread pool of one book;         *)
(*   SpecApi  the objects used on their own: the construction of one       *)
(*            Chapter (the verse extraction) followed by reads, or the     *)
(*            construction of one Book.                                    *)
(* Python strings the code takes apart (class attributes, text nodes,      *)
(* abbreviations) are sequences of one-character strings.                  *)
(***************************************************************************)
EXTENDS Integers, Sequences, FiniteSets, TLC

\* ------------------------------------------------------------------ bounds
MaxVersions == 2
MaxBooks == 2
MaxChapters == 2
MaxLeaves == 3
MaxDepth == 2
MaxTokens == 2

\* a pool that is one worker too wide
max_workers_wide == 20 + 1

\* ThreadPoolExecutor(max_workers=20)
max_workers == 20
\* the smallest book whose chapters do not all fit in the pool at once
BigBook == max_workers + 1

\* ------------------------------------------------------------ Python strings
\* str.replace(old, '') : every non-overlapping occurrence, left to right
RECURSIVE Remove(_, _)
Remove(s, old) ==
    IF Len(s) < Len(old) THEN s
    ELSE IF SubSeq(s, 1, Len(old)) = old
         THEN Remove(SubSeq(s, Len(old) + 1, Len(s)), old)
         ELSE <<Head(s)>> \o Remove(Tail(s), old)

\* None where the code expects a str, and an attribute that is absent
NoneStr == <<"None">>

\* str.count(c) for a one-character c
Count(s, c) == Cardinality({j \in 1..Len(s) : s[j] = c})

\* str.startswith(p)
StartsWith(s, p) == Len(s) >= Len(p) /\ SubSeq(s, 1, Len(p)) = p

\* str.strip()
RECURSIVE LStrip(_)
LStrip(s) == IF s # <<>> /\ Head(s) = " " THEN LStrip(Tail(s)) ELSE s
RECURSIVE RStrip(_)
RStrip(s) == IF s # <<>> /\ s[Len(s)] = " " THEN RStrip(SubSeq(s, 1, Len(s) - 1)) ELSE s
Strip(s) == RStrip(LStrip(s))

\* str.split(' '): the pieces between single spaces, empty pieces kept
RECURSIVE SplitFrom(_, _)
SplitFrom(s, piece) ==
    IF s = <<>> THEN <<piece>>
    ELSE IF Head(s) = " " THEN <<piece>> \o SplitFrom(Tail(s), <<>>)
    ELSE SplitFrom(Tail(s), Append(piece, Head(s)))
Split(s) == SplitFrom(s, <<>>)

\* int(s): surrounding whitespace is ignored, then one or more decimal
\* digits; anything else is a ValueError
Digits == <<"0", "1", "2", "3", "4", "5", "6", "7", "8", "9">>
IsDigit(c) == \E d \in 1..10 : Digits[d] = c
DigitValue(c) == (CHOOSE d \in 1..10 : Digits[d] = c) - 1
IntOk(s) == LET t == Strip(s) IN t # <<>> /\ \A j \in 1..Len(t) : IsDigit(t[j])
RECURSIVE IntDigits(_)
IntDigits(t) ==
    IF t = <<>> THEN 0 ELSE 10 * IntDigits(SubSeq(t, 1, Len(t) - 1)) + DigitValue(t[Len(t)])
PyInt(s) == IntDigits(Strip(s))

\* the decimal digits of n, as the site writes a verse number
RECURSIVE Str(_)
Str(n) == IF n < 10 THEN <<Digits[n + 1]>> ELSE Str(n \div 10) \o <<Digits[(n % 10) + 1]>>

\* ------------------------------------------------------------ site metadata
USFM == <<"GEN", "EXO", "LEV", "NUM">>
HumanLong == <<"Genesis", "Exodus", "Leviticus", "Numbers">>
Abbreviation ==
    << <<"G","e","n",".">>, <<"E","x",".">>, <<"L","e","v",".">>, <<"N","u","m",".">> >>
LocalAbbreviation == <<"NIV", "KJV", "RVR", "NVI">>

\* one entry of data['books']: n canonical chapters after an optional
\* non-canonical introduction
MetaBook(k, n, intro) ==
    [usfm |-> USFM[k], human_long |-> HumanLong[k], abbreviation |-> Abbreviation[k],
     chapters |-> (IF intro THEN <<FALSE>> ELSE <<>>) \o [i \in 1..n |-> TRUE]]

\* the book lists the site may answer with: nb books, the first with n
\* chapters and every later one with a single chapter. Under "free"
\* scheduling n is at most MaxChapters; under "ordered" scheduling the first
\* book has more chapters than the pool has workers.
Catalogs(m) ==
    IF m = "free"
    THEN {[k \in 1..nb |-> MetaBook(k, IF k = 1 THEN n ELSE 1, i)]
              : nb \in 0..MaxBooks, n \in 0..MaxChapters, i \in BOOLEAN}
    ELSE {[k \in 1..nb |-> MetaBook(k, IF k = 1 THEN BigBook ELSE 1, FALSE)]
              : nb \in 1..MaxBooks}

\* --------------------------------------------------------------- the objects
\* Bible.Chapter(book, chapter, bible_id) as the scheduler and the writer see
\* it: the page it was built from
Chapter(book, chapter, bible_id) ==
    [book |-> book, chapter |-> chapter, bible |-> bible_id]
NoChapter == Chapter("", 0, 0)

\* Bible.Book.__init__ with the chapter count supplied
Book(book_id, name_book, bible_id, length, abrev) ==
    [id |-> book_id, name |-> name_book, bible |-> bible_id, length |-> length,
     abrev |-> Remove(abrev, <<".">>)]
NoBook == Book("", "", 0, 0, <<>>)

\* len([ch for ch in i['chapters'] if ch['canonical']])
CanonicalCount(chs) == Cardinality({j \in 1..Len(chs) : chs[j]})

\* the keys of Bible.__hashMap: a usfm string, or a Book object (hashed by
\* identity; the books of a version have distinct usfm codes)
StrKey(usfm) == [kind |-> "str", of |-> usfm]
ObjKey(book) == [kind |-> "Book", of |-> book.id]

\* Bible.__init__: books in the order of data['books'], __hashMap[usfm] = idx
BibleInit(bible_id, data) ==
    [id |-> bible_id,
     abrev |-> LocalAbbreviation[bible_id],
     books |-> [k \in 1..Len(data) |->
                   Book(data[k].usfm, data[k].human_long, bible_id,
                        CanonicalCount(data[k].chapters), data[k].abbreviation)],
     hashMap |-> [key \in {StrKey(data[k].usfm) : k \in 1..Len(data)} |->
                   (CHOOSE k \in 1..Len(data) : data[k].usfm = key.of) - 1]]
NoBible == [id |-> 0, abrev |-> "", books |-> <<>>, hashMap |-> <<>>]

\* defaultdict(int).__getitem__: a missing key reads as int() = 0 ...
HashMapGet(hashMap, key) == IF key \in DOMAIN hashMap THEN hashMap[key] ELSE 0
\* ... and is inserted with that value
HashMapTouch(hashMap, key) ==
    IF key \in DOMAIN hashMap THEN hashMap ELSE (key :> 0) @@ hashMap

\* Bible.get_book / Bible.__getitem__: self.books[self.__hashMap[book]]
\* (Python lists are 0-based, sequences 1-based)
get_book(bible, key) == bible.books[HashMapGet(bible.hashMap, key) + 1]

\* range(1, self.__length): the last chapter is left out
ChapterRangeShort(length) == [i \in 1..(length - 1) |-> i]

\* range(1, self.__length + 1)
ChapterRange(length) == [i \in 1..length |-> i]

\* dict.setdefault on a dict kept as its (key, value) pairs in insertion order
SetDefault(d, key, value) ==
    IF \E j \in 1..Len(d) : d[j].key = key THEN d
    ELSE Append(d, [key |-> key, value |-> value])
Keys(d) == {d[j].key : j \in 1..Len(d)}

\* -------------------------------------------------------------- output file
\* one write of writeFile: the element, its number, the names it carries and,
\* for a chapter, the Chapter object its VERS lines are read from
Line(tag, n, name, short, content) ==
    [tag |-> tag, n |-> n, name |-> name, short |-> short, content |-> content]
HeaderLine(bible) == Line("XMLBIBLE", bible.id, bible.abrev, <<>>, NoChapter)
BookLine(idx, book) == Line("BIBLEBOOK", idx, book.name, book.abrev, NoChapter)
\* <CHAPTER cnumber=..>, the VERS lines of that Chapter object, </CHAPTER>
ChapterLines(d) ==
    [j \in 1..Len(d) |-> Line("CHAPTER", d[j].key, "", <<>>, d[j].value)]
BookEndLine == Line("/BIBLEBOOK", 0, "", <<>>, NoChapter)

\* ===================================================== a writeBible run
VARIABLES
    mode,       \* how the site's answers are scheduled: "free" or "ordered"
    ids,        \* writeBible: the bibles_id still to do
    pc,         \* where the main thread is
    bible,      \* writeBible: bible
    file,       \* writeFile: what has been written to Bibles/<abrev>.xml so far
    closed,     \* the names of the files written to the end and closed
    idx,        \* writeFile: how many books of the version are written
    self,       \* get_async_chapters: the Book it runs on
    pool,       \* which executor this is (one per call of get_async_chapters)
    todo,       \* get_async_chapters: the chapter numbers still to submit
    futures,    \* futureChapters: the futures in submission order, each with
                \* its chapter number, its state and its result
    queue,      \* the executor's work queue: indices into futures
    running,    \* the chapter operations in flight, of every executor
    chapters,   \* get_async_chapters: chapters
    result      \* what get_async_chapters returned to writeFile

runVars == <<mode, ids, pc, bible, file, closed, idx, self, pool, todo, futures,
             queue, running, chapters, result>>

VARIABLES
    obj,         \* which object the client builds: "Chapter" or "Book"
    apc,         \* where the construction is
    leaf,        \* Chapter.__init__: the span the loop is at (i)
    assigned,    \* Chapter.__init__: what the loop made of that span
    seen,        \* the (verse, stripped text) of the spans appended so far
    verses,      \* Chapter.verses, a defaultdict(str) in insertion order
    last_verse,  \* Chapter.__init__: last_verse
    made         \* Book.__init__: its arguments and what became of it

apiVars == <<obj, apc, leaf, assigned, seen, verses, last_verse, made>>
vars == <<runVars, apiVars>>

\* one chapter operation in flight: chapterFn(ch) of executor p
Op(p, f, book, ch) == [pool |-> p, future |-> f, bible |-> book.bible, book |-> book.id,
                       chapter |-> ch]
InFlight(p) == {op \in running : op.pool = p}

\* what a page fetch and extraction may end in. Every page may fail; under
\* "ordered" scheduling only the first and the last page of the big book may.
Outcomes(m, ch) ==
    IF m = "free" \/ ch \in {1, BigBook} THEN {"ok", "error"} ELSE {"ok"}

\* as_completed(futureChapters) has handed out every future
Exhausted(fs) == \A f \in 1..Len(fs) : fs[f].yielded
\* a result() that swallows the exception of the call
RaisesNever(fut) == FALSE

\* future.result() raises the exception of the call
Raises(fut) == fut.state = "error"
\* ThreadPoolExecutor.__exit__: shutdown(wait=True), every work item has run
ShutDown(q, p) == q = <<>> /\ InFlight(p) = {}

RunInit ==
    /\ mode \in {"free", "ordered"}
    /\ ids \in {[i \in 1..n |-> i] : n \in 1..MaxVersions}
    /\ pc = "writeBible"
    /\ bible = NoBible
    /\ file = <<>>
    /\ closed = {}
    /\ idx = 0
    /\ self = NoBook
    /\ pool = 0
    /\ todo = <<>>
    /\ futures = <<>>
    /\ queue = <<>>
    /\ running = {}
    /\ chapters = <<>>
    /\ result = <<>>

\* writeBible, one iteration: bible = Bible(i); writeFile(bible) up to the
\* header
NewBible ==
    /\ pc = "writeBible"
    /\ ids # <<>>
    /\ \E data \in Catalogs(mode) :
          /\ bible' = BibleInit(Head(ids), data)
          /\ file' = <<HeaderLine(bible')>>
    /\ ids' = Tail(ids)
    /\ idx' = 0
    /\ pc' = "writeFile"
    /\ UNCHANGED <<mode, closed, self, pool, todo, futures, queue, running, chapters, result, apiVars>>

\* writeFile, the head of one iteration of the loop over the books: the
\* BIBLEBOOK line, then bible[book].get_async_chapters() up to the executor
BeginBook ==
    /\ pc = "writeFile"
    /\ idx < Len(bible.books)
    /\ LET book == bible.books[idx + 1] IN
          /\ file' = Append(file, BookLine(idx + 1, book))
          /\ self' = get_book(bible, ObjKey(book))
          /\ bible' = [bible EXCEPT !.hashMap = HashMapTouch(@, ObjKey(book))]
    /\ pool' = pool + 1
    /\ chapters' = <<>>
    /\ futures' = <<>>
    /\ queue' = <<>>
    /\ todo' = ChapterRange(self'.length)
    /\ pc' = "get_async_chapters"
    /\ UNCHANGED <<mode, ids, closed, idx, running, result, apiVars>>

\* executor.submit(chapterFn, ch) for the next ch of the range
Submit ==
    /\ pc = "get_async_chapters"
    /\ todo # <<>>
    /\ futures' = Append(futures, [ch |-> Head(todo), state |-> "pending",
                                   result |-> NoChapter, yielded |-> FALSE])
    /\ queue' = Append(queue, Len(futures) + 1)
    /\ todo' = Tail(todo)
    /\ UNCHANGED <<mode, ids, pc, bible, file, closed, idx, self, pool, running, chapters, result, apiVars>>

\* a worker thread of the executor takes the next work item; the executor
\* has at most max_workers threads
StartChapter ==
    /\ pc \in {"get_async_chapters", "raise"}
    /\ queue # <<>>
    /\ Cardinality(InFlight(pool)) < max_workers
    /\ LET f == Head(queue) IN
          /\ futures' = [futures EXCEPT ![f].state = "running"]
          /\ running' = running \cup {Op(pool, f, self, futures[f].ch)}
    /\ queue' = Tail(queue)
    /\ UNCHANGED <<mode, ids, pc, bible, file, closed, idx, self, pool, todo, chapters, result, apiVars>>

\* chapterFn(ch) ends: Bible.Chapter(self.id, ch, self.bible) is built, or
\* its fetch or extraction raises. Under "ordered" scheduling the site
\* answers in the order of the requests.
FinishChapter ==
    \E op \in running :
       /\ mode = "ordered" => \A o \in running : op.future <= o.future
       /\ \E out \in Outcomes(mode, op.chapter) :
             futures' = [futures EXCEPT
                 ![op.future].state = out,
                 ![op.future].result =
                     IF out = "ok" THEN Chapter(op.book, op.chapter, op.bible)
                     ELSE NoChapter]
       /\ running' = running \ {op}
       /\ UNCHANGED <<mode, ids, pc, bible, file, closed, idx, self, pool, todo, queue, chapters, result, apiVars>>

\* one iteration of `for future in as_completed(futureChapters)`:
\* chapters.setdefault(futureChapters[future], future.result()). Under
\* "ordered" scheduling the futures are handed out in submission order.
Collect ==
    /\ pc = "get_async_chapters"
    /\ todo = <<>>
    /\ \E f \in 1..Len(futures) :
          /\ futures[f].state \in {"ok", "error"}
          /\ ~futures[f].yielded
          /\ mode = "ordered" => \A g \in 1..(f - 1) : futures[g].yielded
          /\ futures' = [futures EXCEPT ![f].yielded = TRUE]
          /\ IF Raises(futures[f])
             THEN pc' = "raise" /\ chapters' = chapters
             ELSE pc' = pc /\ chapters' = SetDefault(chapters, futures[f].ch, futures[f].result)
    /\ UNCHANGED <<mode, ids, bible, file, closed, idx, self, pool, todo, queue, running, result, apiVars>>

\* the loop is over, the executor is shut down: return chapters
Return ==
    /\ pc = "get_async_chapters"
    /\ todo = <<>>
    /\ Exhausted(futures)
    /\ ShutDown(queue, pool)
    /\ result' = chapters
    /\ pc' = "write"
    /\ UNCHANGED <<mode, ids, bible, file, closed, idx, self, pool, todo, futures, queue, running, chapters, apiVars>>

\* the exception leaves the executor's with block once every work item has
\* run, then writeFile (which closes the file) and writeBible
Propagate ==
    /\ pc = "raise"
    /\ ShutDown(queue, pool)
    /\ pc' = "failed"
    /\ UNCHANGED <<mode, ids, bible, file, closed, idx, self, pool, todo, futures, queue, running, chapters, result, apiVars>>

\* writeFile, the rest of the iteration: the chapters in the order of the
\* dict, </BIBLEBOOK>
WriteBook ==
    /\ pc = "write"
    /\ file' = file \o ChapterLines(result) \o <<BookEndLine>>
    /\ idx' = idx + 1
    /\ pc' = "writeFile"
    /\ UNCHANGED <<mode, ids, bible, closed, self, pool, todo, futures, queue, running, chapters, result, apiVars>>

\* writeFile after the last book: </XMLBIBLE>, the file is closed. A closed
\* file is never read or written again: only its name is kept.
EndFile ==
    /\ pc = "writeFile"
    /\ idx = Len(bible.books)
    /\ closed' = closed \cup {bible.abrev}
    /\ file' = <<>>
    /\ pc' = "writeBible"
    /\ UNCHANGED <<mode, ids, bible, idx, self, pool, todo, futures, queue, running, chapters, result, apiVars>>

\* ======================================= a Chapter or a Book on its own
\* ------------------------------------------------------- the parsed fragment
\* the verse numbers of the pages: one and two digits
VerseNumbers == {7, 12}
\* "verse v<n1> v<n2> ...", as the site writes the class of a verse element
RECURSIVE VTokens(_)
VTokens(ns) == IF ns = <<>> THEN <<>> ELSE <<" ", "v">> \o Str(Head(ns)) \o VTokens(Tail(ns))
VerseClass(ns) == <<"v", "e", "r", "s", "e">> \o VTokens(ns)
TokenSeqs == UNION {[1..k -> VerseNumbers] : k \in 1..MaxTokens}

\* the classes of the elements between a text span and its verse element:
\* no 'v' at all, one 'v', two of them, and no class attribute
ContentWrapper == <<"c","o","n","t","e","n","t","-","w","r","a","p","p","e","r">>
Wrappers == {ContentWrapper, <<"v","e","r","s","e">>, <<"o","v","e","r","v","i","e","w">>, NoneStr}

\* the ancestors of a span of class "content", nearest first, as their class
\* attributes: up to MaxDepth wrappers, then the verse element if there is
\* one; above it the code never looks. A verse element directly above the
\* span is the chain of no wrapper.
Chains ==
    {w \o top : w \in UNION {[1..d -> Wrappers] : d \in 0..MaxDepth},
                top \in {<<VerseClass(ns)>> : ns \in TokenSeqs} \cup {<<>>}}
       \ {<<>>}

\* i.text of a span: text, text in whitespace, whitespace only, or None (no
\* text node)
Texts == {<<"I", "n">>, <<" ", "t", "h", "e", " ">>, <<" ">>, NoneStr}

Leaves == [text : Texts, chain : Chains]
NoLeaf == [text |-> NoneStr, chain |-> <<>>]

\* ------------------------------------------------------- Chapter.__init__
Raise(kind) == [ok |-> FALSE, error |-> kind, verse |-> 0, at |-> 0]
Found(verse, at) == [ok |-> TRUE, error |-> "", verse |-> verse, at |-> at]
Unassigned == Raise("")

\* findVerseParent(text_tag), text_tag the j-th ancestor: the index of the
\* first element from there up whose class starts with 'verse v'; 0 when
\* attrib['class'] or getparent() fails on the way (the except re-raises)
RECURSIVE findVerseParent(_, _)
findVerseParent(chain, j) ==
    IF j > Len(chain) THEN 0
    ELSE IF chain[j] = NoneStr THEN 0
    ELSE IF StartsWith(chain[j], <<"v","e","r","s","e"," ","v">>) THEN j
    ELSE findVerseParent(chain, j + 1)

\* min over the tokens, as integers
MinOf(S) == CHOOSE m \in S : \A n \in S : m <= n

\* findMinVerse taking the first token of the class
findFirstVerse(verse) ==
    LET pieces == Split(Remove(Remove(verse, <<"v","e","r","s","e"," ">>), <<"v">>))
    IN  IF \A j \in 1..Len(pieces) : IntOk(pieces[j])
        THEN [ok |-> TRUE, verse |-> PyInt(pieces[1])]
        ELSE [ok |-> FALSE, verse |-> 0]

\* findMinVerse(verse)
findMinVerse(verse) ==
    LET pieces == Split(Remove(Remove(verse, <<"v","e","r","s","e"," ">>), <<"v">>))
    IN  IF \A j \in 1..Len(pieces) : IntOk(pieces[j])
        THEN [ok |-> TRUE, verse |-> MinOf({PyInt(pieces[j]) : j \in 1..Len(pieces)})]
        ELSE [ok |-> FALSE, verse |-> 0]

\* int(parent.attrib['class'].replace('verse v',''))
SingleVerse(class) ==
    LET digits == Remove(class, <<"v","e","r","s","e"," ","v">>)
    IN  IF IntOk(digits) THEN [ok |-> TRUE, verse |-> PyInt(digits)]
        ELSE [ok |-> FALSE, verse |-> 0]

\* the number at the element `at` of the chain
VerseAt(chain, at) ==
    LET class == chain[at]
        n == IF Count(class, "v") > 2 THEN findMinVerse(class) ELSE SingleVerse(class)
    IN  IF n.ok THEN Found(n.verse, at) ELSE Raise("ValueError")

\* the body of the loop up to `verse`: the parent, the walk up when its class
\* has fewer than two 'v', then the number
AssignVerse(chain) ==
    IF chain[1] = NoneStr THEN Raise("KeyError")
    ELSE IF Count(chain[1], "v") < 2
         THEN LET at == findVerseParent(chain, 1)
              IN  IF at = 0 THEN Raise("KeyError") ELSE VerseAt(chain, at)
         ELSE VerseAt(chain, 1)

\* defaultdict(str).__getitem__
Has(d, key) == \E j \in 1..Len(d) : d[j].key = key
Get(d, key) == IF Has(d, key) THEN d[CHOOSE j \in 1..Len(d) : d[j].key = key].value ELSE <<>>
Touch(d, key) == IF Has(d, key) THEN d ELSE Append(d, [key |-> key, value |-> <<>>])
Put(d, key, value) ==
    [j \in 1..Len(d) |-> IF d[j].key = key THEN [key |-> key, value |-> value] ELSE d[j]]

\* a space before every span but the first of the chapter
JoinedAfterAny(last, verse, text) == IF last # -1 THEN <<" ">> \o text ELSE text

\* ' ' + text if last_verse == verse else text
Joined(last, verse, text) == IF last = verse THEN <<" ">> \o text ELSE text

\* last_verse = '' : no verse number equals it
NoVerse == -1

\* ----------------------------------------------------------- Book.__init__
\* length=None
NoLength == -1

\* what Book.__init__ ended in, with the arguments of the call and the
\* answer of the site
Made(status, length, fetches, args) ==
    [status |-> status, length |-> length, fetches |-> fetches, args |-> args]
Args(k, length, abrev, data) == [k |-> k, length |-> length, abrev |-> abrev, data |-> data]
NotMade == Made("", 0, 0, Args(0, 0, NoneStr, <<>>))

\* the attributes of self that are assigned before the lookup of line 104
\* runs: self.bible only, self.id is assigned after it
AssignedBeforeLookup == {"bible"}

\* next(filter(lambda i: i['usfm'] == self.id, data["books"])): the lambda
\* runs on the first entry, if there is one, and reads self.id
LookupBook(attrs, book_id, data) ==
    IF data = <<>> THEN [error |-> "StopIteration", at |-> 0]
    ELSE IF "id" \notin attrs THEN [error |-> "AttributeError", at |-> 0]
    ELSE IF \E k \in 1..Len(data) : data[k].usfm = book_id
         THEN [error |-> "", at |-> CHOOSE k \in 1..Len(data) :
                    /\ data[k].usfm = book_id
                    /\ \A j \in 1..(k - 1) : data[j].usfm # book_id]
         ELSE [error |-> "StopIteration", at |-> 0]

\* Book.__init__(book_id, name_book, bible_id, length, abrev), data being
\* what the site answers if it is asked
BookInit(k, length, abrev, data) ==
    LET args == Args(k, length, abrev, data)
        found == LookupBook(AssignedBeforeLookup, USFM[k], data)
        fetches == IF length = NoLength THEN 1 ELSE 0
    IN  IF length = NoLength /\ found.error # ""
        THEN Made(found.error, 0, fetches, args)
        ELSE IF abrev = NoneStr
        THEN Made("AttributeError", 0, fetches, args)
        ELSE Made("ok",
                  IF length = NoLength THEN Len(data[found.at].chapters) ELSE length,
                  fetches, args)

ApiInit ==
    /\ obj \in {"Chapter", "Book"}
    /\ apc = IF obj = "Chapter" THEN "for" ELSE "call"
    /\ leaf = NoLeaf
    /\ assigned = Unassigned
    /\ seen = <<>>
    /\ verses = <<>>
    /\ last_verse = NoVerse
    /\ made = NotMade

\* `for i in etree.xpath('//span/span[@class="content"]')`, the next span,
\* and the body of the loop up to `verse`
ScanLeaf ==
    /\ obj = "Chapter"
    /\ apc = "for"
    /\ Len(seen) < MaxLeaves
    /\ \E i \in Leaves :
          /\ leaf' = i
          /\ assigned' = AssignVerse(i.chain)
    /\ apc' = IF assigned'.ok THEN "body" ELSE "raised"
    /\ UNCHANGED <<obj, seen, verses, last_verse, made, runVars>>

\* the rest of the body:
\* self.verses[verse] += ' '+i.text.strip() if last_verse == verse else i.text.strip()
\* last_verse = verse
AppendText ==
    /\ obj = "Chapter"
    /\ apc = "body"
    /\ IF leaf.text = NoneStr
       THEN \* verses[verse] is read, then None.strip() raises
            /\ apc' = "raised"
            /\ verses' = Touch(verses, assigned.verse)
            /\ UNCHANGED <<leaf, assigned, seen, last_verse>>
       ELSE /\ apc' = "for"
            /\ verses' = Put(Touch(verses, assigned.verse), assigned.verse,
                             Get(verses, assigned.verse)
                                 \o Joined(last_verse, assigned.verse, Strip(leaf.text)))
            /\ seen' = Append(seen, [verse |-> assigned.verse, text |-> Strip(leaf.text)])
            /\ last_verse' = assigned.verse
            /\ leaf' = NoLeaf
            /\ assigned' = Unassigned
    /\ UNCHANGED <<obj, made, runVars>>

\* the loop is over: the Chapter is built
EndOfFragment ==
    /\ obj = "Chapter"
    /\ apc = "for"
    /\ apc' = "built"
    /\ UNCHANGED <<obj, leaf, assigned, seen, verses, last_verse, made, runVars>>

\* the keys a client may ask for: the verse numbers and one that is none
ReadKeys == VerseNumbers \cup {3}

\* Chapter.__getitem__(key), Chapter.get_verse(verse): self.verses[key]
GetItem ==
    /\ obj = "Chapter"
    /\ apc = "built"
    /\ \E key \in ReadKeys : verses' = Touch(verses, key)
    /\ UNCHANGED <<obj, apc, leaf, assigned, seen, last_verse, made, runVars>>

\* Chapter.__iter__, Chapter.__len__, Chapter.get_verse(None)
ReadAll ==
    /\ obj = "Chapter"
    /\ apc = "built"
    /\ UNCHANGED <<apiVars, runVars>>

\* Bible.Book(book_id, name_book, bible_id[, length[, abrev]]) by a client
NewBook ==
    /\ obj = "Book"
    /\ apc = "call"
    /\ \E k \in 1..MaxBooks, length \in {NoLength} \cup 0..MaxChapters,
          named \in BOOLEAN, data \in Catalogs("free") :
          made' = BookInit(k, length, IF named THEN Abbreviation[k] ELSE NoneStr, data)
    /\ apc' = IF made'.status = "ok" THEN "built" ELSE "raised"
    /\ UNCHANGED <<obj, leaf, assigned, seen, verses, last_verse, runVars>>

\* ------------------------------------------------------ the specifications
RunIdle ==
    /\ mode = "free" /\ ids = <<>> /\ pc = "writeBible" /\ bible = NoBible
    /\ file = <<>> /\ closed = {} /\ idx = 0 /\ self = NoBook /\ pool = 0
    /\ todo = <<>> /\ futures = <<>> /\ queue = <<>> /\ running = {}
    /\ chapters = <<>> /\ result = <<>>

ApiIdle ==
    /\ obj = "Chapter" /\ apc = "for" /\ leaf = NoLeaf /\ assigned = Unassigned
    /\ seen = <<>> /\ verses = <<>> /\ last_verse = NoVerse /\ made = NotMade

Init == RunInit /\ ApiIdle

Next ==
    \/ NewBible \/ BeginBook \/ Submit \/ StartChapter \/ FinishChapter
    \/ Collect \/ Return \/ Propagate \/ WriteBook \/ EndFile

Spec == Init /\ [][Next]_vars

InitApi == ApiInit /\ RunIdle

NextApi == ScanLeaf \/ AppendText \/ EndOfFragment \/ GetItem \/ ReadAll \/ NewBook

SpecApi == InitApi /\ [][NextApi]_vars

\* ================================================================ claims

\* C1: when every chapter of the book succeeds, get_async_chapters returns a
\* mapping whose keys are exactly 1..N, each once, each mapped to the Chapter
\* built for that number of that book, whatever the order of completion.
C1_ReturnsEveryChapterOnce ==
    pc = "write" =>
        /\ Keys(result) = 1..self.length
        /\ Len(result) = self.length
        /\ \A j \in 1..Len(result) :
              result[j].value = Chapter(self.id, result[j].key, self.bible)

\* a book of several chapters returned, a later chapter collected first
C1_Witness ==
    /\ pc = "write"
    /\ Len(result) >= 2
    /\ result[1].key > result[2].key

\* C2: once the fetch or extraction of one chapter has failed,
\* get_async_chapters does not return a mapping (the run is in the call, in
\* the propagating exception or ended by it); a returned mapping has no
\* failed chapter and no empty stand-in, and no chapter is submitted twice.
C2_FailureAbortsBook ==
    /\ (\E f \in 1..Len(futures) : futures[f].state = "error")
           => pc \in {"get_async_chapters", "raise", "failed"}
    /\ pc = "write" => \A j \in 1..Len(result) : result[j].value # NoChapter
    /\ \A f, g \in 1..Len(futures) : futures[f].ch = futures[g].ch => f = g

\* the run ended by the failure of one chapter, every other chapter of the
\* book having succeeded
C2_Witness ==
    /\ pc = "failed"
    /\ Len(futures) >= 2
    /\ Cardinality({f \in 1..Len(futures) : futures[f].state = "error"}) = 1
    /\ \A f \in 1..Len(futures) : futures[f].state \in {"ok", "error"}

\* the book whose BIBLEBOOK line is the last one before line i of the file
BookOfLine(lines, i) ==
    LET b == CHOOSE j \in 1..i :
                 /\ lines[j].tag = "BIBLEBOOK"
                 /\ \A k \in (j + 1)..i : lines[k].tag # "BIBLEBOOK"
    IN  lines[b].n

\* C3: nothing of a book is in the file unless all its chapters were fetched
\* and extracted: when a chapter of the book has failed, the file holds no
\* BIBLEBOOK line of that book, and no file is left once the run has ended.
C3_NoWriteUnlessBookComplete ==
    (\E f \in 1..Len(futures) : futures[f].state = "error") =>
        /\ \A i \in 1..Len(file) : ~(file[i].tag = "BIBLEBOOK" /\ file[i].n = idx + 1)
        /\ pc = "failed" => file = <<>>

\* C4: the chapters written inside the BIBLEBOOK element numbered k are those
\* of the k-th book of the version, and the book get_async_chapters runs on
\* is the book being written.
C4_ChaptersUnderTheirOwnBook ==
    /\ pc \in {"get_async_chapters", "raise", "write"} => self = bible.books[idx + 1]
    /\ \A i \in 1..Len(file) :
          file[i].tag = "CHAPTER" =>
              file[i].content.book = bible.books[BookOfLine(file, i)].id

\* C9: at most 20 chapter operations are in flight, all of one call of
\* get_async_chapters, hence of one book of one version.
C9_AtMostTwentyInFlightOfOneBook ==
    /\ Cardinality(running) <= 20
    /\ \A a, b \in running :
          a.pool = b.pool /\ a.bible = b.bible /\ a.book = b.book

\* the pool is full and a chapter waits in the queue
C9_Witness ==
    /\ Cardinality(running) = 20
    /\ queue # <<>>

\* the verse numbers that got the text of a span
Extracted == {seen[k].verse : k \in 1..Len(seen)}

\* C5: a built Chapter, whatever was read from it, has no key in verses for
\* a verse number that got no text.
C5_NoKeyWithoutText ==
    (obj = "Chapter" /\ apc = "built") =>
        \A j \in 1..Len(verses) : verses[j].key \in Extracted

\* the text of verse n after the spans h, by the rule of the claim: the
\* trimmed texts in document order, a space before a span exactly when the
\* span before it is of the same verse
RECURSIVE TextOf(_, _, _)
TextOf(h, n, k) ==
    IF k = 0 THEN <<>>
    ELSE TextOf(h, n, k - 1) \o
         (IF h[k].verse # n THEN <<>>
          ELSE (IF k > 1 /\ h[k - 1].verse = n THEN <<" ">> ELSE <<>>) \o h[k].text)

\* C6: between two spans and once built, verses[N] is the trimmed texts of
\* the spans of verse N in document order, with one space before a span if
\* and only if the span right before it is of verse N too.
C6_SpaceOnlyAfterSameVerse ==
    (obj = "Chapter" /\ apc \in {"for", "built"}) =>
        \A n \in Extracted : Has(verses, n) /\ Get(verses, n) = TextOf(seen, n, Len(seen))

\* a verse interrupted by another and resumed, and two adjacent spans of one
\* verse
C6_Witness ==
    /\ obj = "Chapter" /\ apc = "built"
    /\ Len(seen) = 3
    /\ seen[1].verse = seen[3].verse
    /\ seen[2].verse # seen[1].verse
    /\ seen[3].text # <<>>

IsVerseClass(class) == class # NoneStr /\ StartsWith(class, <<"v","e","r","s","e"," ","v">>)
\* the nearest ancestor whose class starts with "verse v", 0 if there is none
Nearest(chain) ==
    IF \E q \in 1..Len(chain) : IsVerseClass(chain[q])
    THEN CHOOSE q \in 1..Len(chain) :
             IsVerseClass(chain[q]) /\ \A r \in 1..(q - 1) : ~IsVerseClass(chain[r])
    ELSE 0

\* C7: a span whose parent carries no verse token gets the verse number of
\* its nearest ancestor whose class starts with "verse v", whatever lies
\* between; the extraction fails only when there is no such ancestor.
C7_NearestVerseAncestor ==
    (obj = "Chapter" /\ leaf # NoLeaf /\ ~IsVerseClass(leaf.chain[1])) =>
        /\ Nearest(leaf.chain) # 0 => assigned.ok /\ assigned.at = Nearest(leaf.chain)
        /\ Nearest(leaf.chain) = 0 => ~assigned.ok

\* C8: under an element of class "verse v<n1> ... v<nk>" a span gets the
\* number min(n1..nk), for k = 1 the number itself; such an element right
\* above the span is always accepted.
C8_RangeCollapsesToMinimum ==
    (obj = "Chapter" /\ leaf # NoLeaf) =>
        \A ns \in TokenSeqs :
            /\ leaf.chain[1] = VerseClass(ns) => assigned.ok /\ assigned.at = 1
            /\ (assigned.ok /\ leaf.chain[assigned.at] = VerseClass(ns))
                   => assigned.verse = MinOf({ns[t] : t \in 1..Len(ns)})

\* a range whose smallest number is neither its first token nor the first in
\* the order of strings, reached through a wrapper
C8_Witness ==
    /\ obj = "Chapter" /\ leaf # NoLeaf
    /\ Len(leaf.chain) = 2
    /\ leaf.chain[2] = VerseClass(<<12, 7>>)
    /\ assigned.ok /\ assigned.at = 2 /\ assigned.verse = 7

\* C10: a Book built without a chapter count, for a code the metadata has,
\* succeeds with one extra fetch and the chapter count of its entry; a Book
\* built with a chapter count succeeds with no fetch and that count.
C10_StandaloneBookRecoversLength ==
    (obj = "Book" /\ apc # "call") =>
        LET a == made.args
            entries == {k \in 1..Len(a.data) : a.data[k].usfm = USFM[a.k]}
        IN  /\ (a.length = NoLength /\ entries # {}) =>
                  /\ made.status = "ok"
                  /\ made.fetches = 1
                  /\ \E k \in entries : made.length = CanonicalCount(a.data[k].chapters)
            /\ (a.length # NoLength /\ a.abrev # NoneStr) =>
                  /\ made.status = "ok"
                  /\ made.fetches = 0
                  /\ made.length = a.length
====
